---- MODULE Spec2Model ----
(***************************************************************************)
(* Connection admission and lifecycle coordination of rust-redis-server.   *)
(*                                                                         *)
(* The repository holds two drafts of the same acceptor:                   *)
(*   src/src/server.rs  Server::run, bounded by config.max_connections     *)
(*   src/src/main.rs    main, the binary's own accept loop (no bound)      *)
(* The variable `program` says which draft is running; both share the      *)
(* counter active_conns, the acceptor position and the handler tasks.      *)
(***************************************************************************)
EXTENDS Integers, FiniteSets, Sequences, TLC

\* ---------------------------------------------------------------- bounds
\* Number of clients that ever connect.
MaxConns == 3
\* Largest value of config.max_connections that is explored.
MaxMaxConnections == 2
\* Number of times the interrupt (ctrl-c) is delivered.
MaxSignals == 2
\* Modelled width of usize, in bits.
UsizeBits == 8

Conns == 1..MaxConns
UsizeModulus == 2 ^ UsizeBits

\* final_count before shutdown has read the counter.
NoCount == -1
\* `cur` when the acceptor holds no freshly accepted socket.
NoConn == 0

VARIABLES
    program,          \* "server_rs" (Server::run) or "main_rs" (main)
    max_connections,  \* ServerConfig.max_connections (server_rs only)
    active_conns,     \* the shared AtomicUsize
    acc_pc,           \* position of the acceptor
    cur,              \* the socket held by the accept branch
    result,           \* what run / main returned: "none", "Ok", "Err"
    final_count,      \* the count printed at shutdown
    signals,          \* interrupts delivered so far
    sigint,           \* an interrupt is pending for ctrl_c()
    task,             \* per connection: position of its client / handler
    admitted,         \* per connection: fetch_add calls performed
    released,         \* per connection: fetch_sub calls performed
    accept_errors,    \* accept() calls that returned Err
    late_signals      \* interrupts delivered after shutdown was observed

vars == <<program, max_connections, active_conns, acc_pc, cur, result,
          final_count, signals, sigint, task, admitted, released,
          accept_errors, late_signals>>

\* Acceptor states of the design: Listening, ShuttingDown, Stopped.
Listening == {"head", "select", "accept_branch"}
ShuttingDown == {"shutting_down"}
Stopped == {"returned"}

\* Handler positions.
\*   idle       the client has not connected yet
\*   pending    connected, waiting in the listener's queue
\*   accepted   socket returned by accept(), held by the accept branch
\*   spawned    task spawned, fetch_add not yet executed
\*   working    after fetch_add, inside the stubbed protocol work (sleep)
\*   handled    server_rs: handle_connection returned, fetch_sub not yet run
\*   done       the task ran to the end of its body
\*   panicked   server_rs: handle_connection panicked, task unwound
\*   cancelled  main_rs: task dropped by the runtime at an await point
TaskPcs == {"idle", "pending", "accepted", "spawned", "working", "handled",
            "done", "panicked", "cancelled"}
InFlightPcs == {"spawned", "working", "handled"}
ExitedPcs == {"done", "panicked", "cancelled"}

\* ------------------------------------------------------- atomic operations
fetch_add_lost(x, n) == x

fetch_add_double(x, n) == (x + n + 1) % UsizeModulus

\* AtomicUsize::fetch_add: wrapping addition, one indivisible step.
fetch_add(x, n) == (x + n) % UsizeModulus

fetch_sub_lost(x, n) == x

\* AtomicUsize::fetch_sub: wrapping subtraction, one indivisible step.
fetch_sub(x, n) == (x - n) % UsizeModulus

\* AtomicUsize::load.
load(x) == x

\* ------------------------------------------------------------------- Init
\* ServerConfig is chosen by the caller of Server::new; main.rs has none.
ServerConfig == 0..MaxMaxConnections

\* Server::new / the first lines of main: counter 0, nothing accepted.
Init ==
    /\ program \in {"server_rs", "main_rs"}
    /\ max_connections \in (IF program = "server_rs" THEN ServerConfig ELSE {0})
    /\ active_conns = 0
    /\ acc_pc = IF program = "server_rs" THEN "head" ELSE "select"
    /\ cur = NoConn
    /\ result = "none"
    /\ final_count = NoCount
    /\ signals = 0
    /\ sigint = FALSE
    /\ task = [c \in Conns |-> "idle"]
    /\ admitted = [c \in Conns |-> 0]
    /\ released = [c \in Conns |-> 0]
    /\ accept_errors = 0
    /\ late_signals = 0

\* ------------------------------------------------------------ environment
\* A client connects; the kernel queues it while the listener exists.
Connect(c) ==
    /\ acc_pc \notin Stopped
    /\ task[c] = "idle"
    /\ \A d \in Conns : d < c => task[d] # "idle"
    /\ task' = [task EXCEPT ![c] = "pending"]
    /\ UNCHANGED <<program, accept_errors, late_signals,
                   max_connections, active_conns, acc_pc, cur,
                   result, final_count, signals, sigint, admitted, released>>

\* The operator interrupts the process; the trigger stays pending until the
\* acceptor's ctrl_c() wait observes it.
Interrupt ==
    /\ signals < MaxSignals
    /\ signals' = signals + 1
    /\ sigint' = (acc_pc \in Listening \/ sigint)
    /\ late_signals' = late_signals + (IF final_count # NoCount THEN 1 ELSE 0)
    /\ UNCHANGED <<program, accept_errors,
                   max_connections, active_conns, acc_pc, cur,
                   result, final_count, task, admitted, released>>

\* The connection at the head of the listener's queue.
NextPending(c) ==
    /\ task[c] = "pending"
    /\ \A d \in Conns : d < c => task[d] # "pending"

\* --------------------------------------------------- server.rs Server::run
RunLoopHead_Le ==
    /\ program = "server_rs"
    /\ acc_pc = "head"
    /\ IF load(active_conns) <= max_connections
         THEN /\ acc_pc' = "select"
              /\ result' = result
         ELSE /\ acc_pc' = "returned"
              /\ result' = "Ok"
    /\ UNCHANGED <<program, accept_errors, late_signals,
                   max_connections, active_conns, cur, final_count,
                   signals, sigint, task, admitted, released>>

\* while self.active_conns.load(Relaxed) < self.config.max_connections
RunLoopHead ==
    /\ program = "server_rs"
    /\ acc_pc = "head"
    /\ IF load(active_conns) < max_connections
         THEN /\ acc_pc' = "select"
              /\ result' = result
         ELSE /\ acc_pc' = "returned"
              /\ result' = "Ok"
    /\ UNCHANGED <<program, accept_errors, late_signals,
                   max_connections, active_conns, cur, final_count,
                   signals, sigint, task, admitted, released>>

\* result = listener.accept() => let (socket, addr) = result?;  (Ok case)
RunAccept(c) ==
    /\ program = "server_rs"
    /\ acc_pc = "select"
    /\ NextPending(c)
    /\ acc_pc' = "accept_branch"
    /\ cur' = c
    /\ task' = [task EXCEPT ![c] = "accepted"]
    /\ UNCHANGED <<program, accept_errors, late_signals,
                   max_connections, active_conns, result,
                   final_count, signals, sigint, admitted, released>>

\* result = listener.accept() => let (socket, addr) = result?;  (Err case)
RunAcceptErr ==
    /\ program = "server_rs"
    /\ acc_pc = "select"
    /\ acc_pc' = "returned"
    /\ result' = "Err"
    /\ accept_errors' = accept_errors + 1
    /\ UNCHANGED <<program, late_signals,
                   max_connections, active_conns, cur, final_count,
                   signals, sigint, task, admitted, released>>

RunSpawn_Await ==
    /\ program = "server_rs"
    /\ acc_pc = "accept_branch"
    /\ task' = [task EXCEPT ![cur] = "spawned"]
    /\ cur' = cur
    /\ acc_pc' = "accept_branch"
    /\ UNCHANGED <<program, accept_errors, late_signals,
                   max_connections, active_conns, result,
                   final_count, signals, sigint, admitted, released>>

\* tokio::spawn(async move { ... }); the acceptor goes back to the loop head.
RunSpawn ==
    /\ program = "server_rs"
    /\ acc_pc = "accept_branch"
    /\ task' = [task EXCEPT ![cur] = "spawned"]
    /\ cur' = NoConn
    /\ acc_pc' = "head"
    /\ UNCHANGED <<program, accept_errors, late_signals,
                   max_connections, active_conns, result,
                   final_count, signals, sigint, admitted, released>>

\* Server::shutdown: read and print the counter.
shutdown == final_count' = load(active_conns)

\* _ = tokio::signal::ctrl_c() => { self.shutdown(); ...
RunCtrlC ==
    /\ program = "server_rs"
    /\ acc_pc = "select"
    /\ sigint
    /\ shutdown
    /\ acc_pc' = "shutting_down"
    /\ sigint' = FALSE
    /\ UNCHANGED <<program, accept_errors, late_signals,
                   max_connections, active_conns, cur, result,
                   signals, task, admitted, released>>

RunBreak_NoBreak ==
    /\ program = "server_rs"
    /\ acc_pc = "shutting_down"
    /\ acc_pc' = "head"
    /\ UNCHANGED <<program, accept_errors, late_signals,
                   max_connections, active_conns, cur, result,
                   final_count, signals, sigint, task, admitted, released>>

\* ... break; } and Ok(()) after the loop.
RunBreak ==
    /\ program = "server_rs"
    /\ acc_pc = "shutting_down"
    /\ acc_pc' = "returned"
    /\ result' = "Ok"
    /\ UNCHANGED <<program, accept_errors, late_signals,
                   max_connections, active_conns, cur, final_count,
                   signals, sigint, task, admitted, released>>

\* Spawned task: let count = active_conns.fetch_add(1, Relaxed) + 1;
TaskFetchAdd(c) ==
    /\ program = "server_rs"
    /\ task[c] = "spawned"
    /\ active_conns' = fetch_add(active_conns, 1)
    /\ admitted' = [admitted EXCEPT ![c] = @ + 1]
    /\ task' = [task EXCEPT ![c] = "working"]
    /\ UNCHANGED <<program, accept_errors, late_signals,
                   max_connections, acc_pc, cur, result,
                   final_count, signals, sigint, released>>

ServerHandleConnection_Propagates(c) ==
    /\ program = "server_rs"
    /\ task[c] = "working"
    /\ \E ok \in BOOLEAN :
         /\ task' = [task EXCEPT ![c] = IF ok THEN "handled" ELSE "panicked"]
         /\ acc_pc' = IF ok THEN acc_pc ELSE "returned"
         /\ result' = IF ok THEN result ELSE "Err"
    /\ UNCHANGED <<program, accept_errors, late_signals,
                   max_connections, active_conns, cur,
                   final_count, signals, sigint, admitted, released>>

\* Server::handle_connection: sleep, then
\* assert_eq!(addr, socket.peer_addr().unwrap()), which panics when
\* peer_addr() fails (the peer has reset the connection meanwhile).
ServerHandleConnection(c) ==
    /\ program = "server_rs"
    /\ task[c] = "working"
    /\ \E ok \in BOOLEAN :
         task' = [task EXCEPT ![c] = IF ok THEN "handled" ELSE "panicked"]
    /\ UNCHANGED <<program, accept_errors, late_signals,
                   max_connections, active_conns, acc_pc, cur,
                   result, final_count, signals, sigint, admitted, released>>

\* Spawned task: let count = active_conns.fetch_sub(1, Relaxed) - 1;
TaskFetchSub(c) ==
    /\ program = "server_rs"
    /\ task[c] = "handled"
    /\ active_conns' = fetch_sub(active_conns, 1)
    /\ released' = [released EXCEPT ![c] = @ + 1]
    /\ task' = [task EXCEPT ![c] = "done"]
    /\ UNCHANGED <<program, accept_errors, late_signals,
                   max_connections, acc_pc, cur, result,
                   final_count, signals, sigint, admitted>>

\* ------------------------------------------------------------ main.rs main
MainAccept_Limited(c) ==
    /\ program = "main_rs"
    /\ acc_pc = "select"
    /\ load(active_conns) < 1
    /\ NextPending(c)
    /\ acc_pc' = "accept_branch"
    /\ cur' = c
    /\ task' = [task EXCEPT ![c] = "accepted"]
    /\ UNCHANGED <<program, accept_errors, late_signals,
                   max_connections, active_conns, result,
                   final_count, signals, sigint, admitted, released>>

\* result = listener.accept() => let (socket, addr) = result?;  (Ok case)
MainAccept(c) ==
    /\ program = "main_rs"
    /\ acc_pc = "select"
    /\ NextPending(c)
    /\ acc_pc' = "accept_branch"
    /\ cur' = c
    /\ task' = [task EXCEPT ![c] = "accepted"]
    /\ UNCHANGED <<program, accept_errors, late_signals,
                   max_connections, active_conns, result,
                   final_count, signals, sigint, admitted, released>>

\* result = listener.accept() => let (socket, addr) = result?;  (Err case)
MainAcceptErr ==
    /\ program = "main_rs"
    /\ acc_pc = "select"
    /\ acc_pc' = "returned"
    /\ result' = "Err"
    /\ accept_errors' = accept_errors + 1
    /\ UNCHANGED <<program, late_signals,
                   max_connections, active_conns, cur, final_count,
                   signals, sigint, task, admitted, released>>

MainSpawn_Admit ==
    /\ program = "main_rs"
    /\ acc_pc = "accept_branch"
    /\ task' = [task EXCEPT ![cur] = "spawned"]
    /\ cur' = NoConn
    /\ acc_pc' = "select"
    /\ active_conns' = fetch_add(active_conns, 1)
    /\ UNCHANGED <<program, accept_errors, late_signals,
                   max_connections, result,
                   final_count, signals, sigint, admitted, released>>

\* tokio::spawn(async move { handle_connection(...).await ... }); loop again.
MainSpawn ==
    /\ program = "main_rs"
    /\ acc_pc = "accept_branch"
    /\ task' = [task EXCEPT ![cur] = "spawned"]
    /\ cur' = NoConn
    /\ acc_pc' = "select"
    /\ UNCHANGED <<program, accept_errors, late_signals,
                   max_connections, active_conns, result,
                   final_count, signals, sigint, admitted, released>>

\* _ = tokio::signal::ctrl_c() => { let final_count = active_conns.load(..)
MainCtrlC ==
    /\ program = "main_rs"
    /\ acc_pc = "select"
    /\ sigint
    /\ final_count' = load(active_conns)
    /\ acc_pc' = "shutting_down"
    /\ sigint' = FALSE
    /\ UNCHANGED <<program, accept_errors, late_signals,
                   max_connections, active_conns, cur, result,
                   signals, task, admitted, released>>

MainBreak_NoBreak ==
    /\ program = "main_rs"
    /\ acc_pc = "shutting_down"
    /\ acc_pc' = "select"
    /\ UNCHANGED <<program, accept_errors, late_signals,
                   max_connections, active_conns, cur, result,
                   final_count, signals, sigint, task, admitted, released>>

\* break; println!("Server shutdown complete"); Ok(())
MainBreak ==
    /\ program = "main_rs"
    /\ acc_pc = "shutting_down"
    /\ acc_pc' = "returned"
    /\ result' = "Ok"
    /\ UNCHANGED <<program, accept_errors, late_signals,
                   max_connections, active_conns, cur, final_count,
                   signals, sigint, task, admitted, released>>

\* handle_connection: let count = active_conns.fetch_add(1, SeqCst) + 1;
HandleConnectionFetchAdd(c) ==
    /\ program = "main_rs"
    /\ task[c] = "spawned"
    /\ active_conns' = fetch_add(active_conns, 1)
    /\ admitted' = [admitted EXCEPT ![c] = @ + 1]
    /\ task' = [task EXCEPT ![c] = "working"]
    /\ UNCHANGED <<program, accept_errors, late_signals,
                   max_connections, acc_pc, cur, result,
                   final_count, signals, sigint, released>>

\* handle_connection: the sleep is over;
\* let count = active_conns.fetch_sub(1, SeqCst) - 1; Ok(())
HandleConnectionFetchSub(c) ==
    /\ program = "main_rs"
    /\ task[c] = "working"
    /\ active_conns' = fetch_sub(active_conns, 1)
    /\ released' = [released EXCEPT ![c] = @ + 1]
    /\ task' = [task EXCEPT ![c] = "done"]
    /\ UNCHANGED <<program, accept_errors, late_signals,
                   max_connections, acc_pc, cur, result,
                   final_count, signals, sigint, admitted>>

\* #[tokio::main]: when main returns the runtime is dropped, and a task
\* that is suspended (never polled, or inside the sleep) is dropped with it.
RuntimeDrop(c) ==
    /\ program = "main_rs"
    /\ acc_pc = "returned"
    /\ task[c] \in {"spawned", "working"}
    /\ task' = [task EXCEPT ![c] = "cancelled"]
    /\ UNCHANGED <<program, accept_errors, late_signals,
                   max_connections, active_conns, acc_pc, cur,
                   result, final_count, signals, sigint, admitted, released>>

\* ------------------------------------------------------------------- Next
Next ==
    \/ \E c \in Conns : Connect(c)
    \/ Interrupt
    \/ RunLoopHead
    \/ \E c \in Conns : RunAccept(c)
    \/ RunAcceptErr
    \/ RunSpawn
    \/ RunCtrlC
    \/ RunBreak
    \/ \E c \in Conns : TaskFetchAdd(c)
    \/ \E c \in Conns : ServerHandleConnection(c)
    \/ \E c \in Conns : TaskFetchSub(c)
    \/ \E c \in Conns : MainAccept(c)
    \/ MainAcceptErr
    \/ MainSpawn
    \/ MainCtrlC
    \/ MainBreak
    \/ \E c \in Conns : HandleConnectionFetchAdd(c)
    \/ \E c \in Conns : HandleConnectionFetchSub(c)
    \/ \E c \in Conns : RuntimeDrop(c)

Spec == Init /\ [][Next]_vars

\* ------------------------------------------------------------ type sanity
TypeOK ==
    /\ program \in {"server_rs", "main_rs"}
    /\ max_connections \in 0..MaxMaxConnections
    /\ active_conns \in 0..(UsizeModulus - 1)
    /\ acc_pc \in Listening \cup ShuttingDown \cup Stopped
    /\ cur \in Conns \cup {NoConn}
    /\ result \in {"none", "Ok", "Err"}
    /\ final_count \in {NoCount} \cup 0..(UsizeModulus - 1)
    /\ signals \in 0..MaxSignals
    /\ sigint \in BOOLEAN
    /\ task \in [Conns -> TaskPcs]
    /\ admitted \in [Conns -> 0..1]
    /\ released \in [Conns -> 0..1]
    /\ accept_errors \in 0..1
    /\ late_signals \in 0..MaxSignals

\* ----------------------------------------------------- derived quantities
\* Connections accepted and handed to a handler that has not yet finished.
InFlight == Cardinality({c \in Conns : task[c] \in InFlightPcs})

\* Handlers that have incremented the counter and are still running.
Active == Cardinality({c \in Conns : task[c] \in {"working", "handled"}})

\* The acceptor has taken the ctrl_c() branch.
ShutdownObserved == final_count # NoCount

\* ----------------------------------------------------------------- claims

\* C1: in Server::run the shared counter active_conns never exceeds
\* config.max_connections, under every interleaving of the loop-head check,
\* the spawns and the handlers' increments and decrements.
C1_CounterNeverExceedsMax ==
    program = "server_rs" => active_conns <= max_connections

\* C2: every handler that has incremented the counter and has exited
\* (normally, by a panic, or by cancellation) has decremented it exactly once.
C2_ReleaseOnEveryExit ==
    \A c \in Conns :
        (task[c] \in ExitedPcs /\ admitted[c] = 1) => released[c] = 1

\* C3: the count the acceptor reports when it handles the shutdown trigger
\* equals the number K of connections in flight at that moment.
C3_ReportedCountIsInFlight ==
    [][final_count' # final_count => final_count' = InFlight]_vars

\* C4: once the acceptor has observed the shutdown trigger it never returns
\* to Listening, and no further connection is accepted or handed to a
\* handler in any later step.
C4_NoAdmissionAfterShutdown ==
    [][ShutdownObserved =>
         /\ acc_pc' \notin Listening
         /\ (acc_pc \in Stopped => acc_pc' \in Stopped)
         /\ \A c \in Conns : task[c] \in {"idle", "pending"}
                               => task'[c] \in {"idle", "pending"}]_vars

\* C4 witness: the acceptor has stopped after the trigger while a client is
\* still waiting in the listener's queue, next to a handler in flight.
C4_Witness ==
    /\ ShutdownObserved
    /\ acc_pc \in Stopped
    /\ \E c \in Conns : task[c] = "pending"
    /\ \E c \in Conns : task[c] \in InFlightPcs

\* C5: with max_connections = 1, after client A was admitted and has
\* completed (count back to 0) and before any shutdown trigger, the acceptor
\* is still Listening, so that a later client can re-use the slot.
C5_CapacityNeverStopsAcceptor ==
    (/\ program = "server_rs"
     /\ max_connections = 1
     /\ task[1] = "done"
     /\ active_conns = 0
     /\ signals = 0
     /\ accept_errors = 0) => acc_pc \in Listening

\* C6: while the number of active (admitted, unreleased) connections equals
\* max_connections, no waiting connection attempt is admitted.
C6_NoAdmissionAtCapacity ==
    [][(program = "server_rs" /\ Active = max_connections) =>
         \A c \in Conns : task[c] = "pending" => task'[c] = "pending"]_vars

C8_CounterEqualsLiveHandles ==
    active_conns = InFlight

\* C9: the acceptor leaves Listening only because the shutdown trigger was
\* observed; run / main never returns before that.
C9_ReturnsOnlyOnShutdown ==
    acc_pc \in Stopped => ShutdownObserved

\* C10: a failed accept attempt leaves the acceptor Listening, returns
\* nothing to the caller, and changes neither the counter nor any handler.
C10_AcceptFailureIsRecoverable ==
    [][accept_errors' # accept_errors =>
         /\ acc_pc' \in Listening
         /\ result' = "none"
         /\ active_conns' = active_conns
         /\ task' = task]_vars

C12_HandlersFinishAfterShutdown ==
    (ShutdownObserved /\ acc_pc \in Stopped) =>
        /\ \A c \in Conns : task[c] # "cancelled"
        /\ (InFlight = 0 => active_conns = 0)

\* C13: a shutdown trigger that fired while the acceptor was Listening is
\* never left unobserved: the acceptor does not return without having
\* recorded the in-flight count for it.
C13_TriggerLeadsToRecordedShutdown ==
    (sigint /\ acc_pc \in Stopped) => ShutdownObserved

\* C14: the counter never goes below zero: every decrement is applied to a
\* counter that is at least 1 and lowers it by exactly 1, so the unsigned
\* value never wraps around.
C14_CounterNeverWraps ==
    [][/\ released' # released =>
            (active_conns > 0 /\ active_conns' = active_conns - 1)
       /\ active_conns' <= MaxConns]_vars

\* C14 witness: one handler has decremented while another still holds its
\* slot, leaving the counter at 1.
C14_Witness ==
    \E c, d \in Conns :
        /\ c # d
        /\ released[c] = 1
        /\ task[d] \in {"working", "handled"}
        /\ active_conns = 1

\* C15: the acceptor does not wait for a handler it spawns: the spawning
\* step puts the acceptor straight back at its loop, holding no socket.
C15_SpawnDoesNotWait ==
    [][\A c \in Conns :
         (task[c] = "accepted" /\ task'[c] = "spawned") =>
            (acc_pc' \in {"head", "select"} /\ cur' = NoConn)]_vars

\* C15 witness: two handlers are in their protocol work at the same time
\* while the acceptor is Listening.
C15_Witness ==
    /\ acc_pc \in Listening
    /\ Cardinality({c \in Conns : task[c] = "working"}) >= 2

\* C16: after the acceptor has observed the shutdown trigger, a further
\* trigger is not queued and changes neither the acceptor, the counter, the
\* reported count nor any handler.
C16_SecondTriggerIsNoOp ==
    [][ShutdownObserved =>
         /\ final_count' = final_count
         /\ ~sigint'
         /\ signals' # signals =>
               UNCHANGED <<acc_pc, cur, result, active_conns, task>>]_vars

\* C16 witness: a trigger was delivered after shutdown had been observed,
\* with a handler still in flight.
C16_Witness ==
    /\ late_signals >= 1
    /\ ShutdownObserved
    /\ InFlight >= 1

\* Handlers that have executed fetch_add but not yet fetch_sub.
Counted == {c \in Conns : admitted[c] = 1 /\ released[c] = 0}

\* C17: the counter equals the number of handlers between their fetch_add
\* and their fetch_sub; a handler's fetch_sub follows its own fetch_add, and
\* every change of the counter is by exactly +1 or -1.
C17_CounterCountsHandlers ==
    [][/\ active_conns' = Cardinality(Counted')
       /\ \A c \in Conns : released'[c] <= admitted'[c] /\ admitted'[c] <= 1
       /\ active_conns' # active_conns =>
             active_conns' - active_conns \in {-1, 1}]_vars

\* C17 witness: two handlers are counted while a third has already
\* performed its fetch_sub.
C17_Witness ==
    /\ Cardinality(Counted) = 2
    /\ active_conns = 2
    /\ \E c \in Conns : released[c] = 1

\* C18: Server::run enters the select only from a loop-head read strictly
\* below max_connections and accepts only from there; a read at or above
\* max_connections makes run return Ok without calling shutdown; with
\* max_connections = 0 no connection is ever accepted.
C18_AcceptOnlyBelowMax ==
    [][program = "server_rs" =>
         /\ (acc_pc = "head" /\ acc_pc' # "head") =>
               IF active_conns < max_connections
                 THEN acc_pc' = "select" /\ result' = "none"
                 ELSE /\ acc_pc' = "returned"
                      /\ result' = "Ok"
                      /\ final_count' = final_count
         /\ (acc_pc # "select" /\ acc_pc' = "select") =>
               (acc_pc = "head" /\ active_conns < max_connections)
         /\ (\E c \in Conns : task[c] = "pending" /\ task'[c] # "pending")
               => acc_pc = "select"
         /\ max_connections = 0 =>
               \A c \in Conns : task'[c] \in {"idle", "pending"}]_vars

\* C18 witness: with a capacity of at least 1, run has returned Ok at the
\* loop head, without shutdown, while a client is waiting to be accepted.
C18_Witness ==
    /\ program = "server_rs"
    /\ max_connections >= 1
    /\ acc_pc \in Stopped
    /\ result = "Ok"
    /\ ~ShutdownObserved
    /\ active_conns >= max_connections
    /\ \E c \in Conns : task[c] = "pending"

\* A step taken by the acceptor (loop head, accept, spawn, ctrl_c, return).
AcceptorStep ==
    \/ acc_pc' # acc_pc
    \/ cur' # cur
    \/ result' # result
    \/ final_count' # final_count

\* C19: no acceptor step writes the counter; the counter changes only in a
\* step of a handler task; the configuration never changes.
C19_OnlyHandlersWriteCounter ==
    [][/\ AcceptorStep => active_conns' = active_conns
       /\ active_conns' # active_conns =>
             \E c \in Conns : task[c] \in InFlightPcs /\ task'[c] # task[c]
       /\ max_connections' = max_connections
       /\ program' = program]_vars

\* C19 witness: the acceptor has gone through accept, spawn and shutdown
\* with a non-zero counter, which its report shows.
C19_Witness ==
    /\ acc_pc \in Stopped
    /\ ShutdownObserved
    /\ final_count >= 1
    /\ active_conns >= 1

\* C20: main.rs applies no admission limit: whatever the counter's value, a
\* waiting connection can be accepted, a spawned handler can increment, and
\* main never returns because of the counter.
C20_MainHasNoAdmissionLimit ==
    program = "main_rs" =>
        /\ (acc_pc = "select" /\ \E c \in Conns : task[c] = "pending")
              => ENABLED (\E c \in Conns : MainAccept(c))
        /\ \A c \in Conns :
              task[c] = "spawned" => ENABLED HandleConnectionFetchAdd(c)
        /\ acc_pc \in Stopped => (ShutdownObserved \/ accept_errors > 0)

\* C20 witness: every client that connected is simultaneously active in
\* main.rs, the counter being as large as the number of clients.
C20_Witness ==
    /\ program = "main_rs"
    /\ \A c \in Conns : task[c] = "working"
    /\ active_conns = MaxConns

====
